---- MODULE Spec2Model ----
(***************************************************************************)
(* Zonal statistics of a classified raster per polygon feature             *)
(* (src/src/pixel_counter.py, src/src/pixel_counter_functions.py).         *)
(*                                                                         *)
(* Coordinates are integers: every geographic coordinate, origin and pixel *)
(* size is a whole number of one common unit, so the float expressions of  *)
(* the source are exact and int(a / b) is truncation of the exact quotient.*)
(* A polygon is modelled by the rectangle of its envelope; the rasterizer  *)
(* burns the cells whose centre lies in it.                                *)
(*                                                                         *)
(* Tuples are 1-based: gt[1] is the source's gt[0], bbox[1] its bbox[0].   *)
(***************************************************************************)
EXTENDS Integers, Sequences, FiniteSets, TLC

VARIABLES
    vlyr,           \* the features of layer 0, in iteration order
    rb,             \* band 1 of the raster, with the raster's geotransform
    nodata_value,   \* the nodata_value argument
    pc,             \* per run: "idle", "start", "loop", "returned", "raised"
    feat,           \* per run: index in vlyr of the current feature (Len+1: None)
    src_offset,     \* per run: the window (x1, y1, xsize, ysize)
    src_array,      \* per run: the array read from the band, or None
    new_gt,         \* per run: geotransform of the window
    rv_array,       \* per run: the rasterized feature
    masked,         \* per run: the masked array of the current feature
    stats,          \* per run: the list of records built so far
    raised,         \* per run: the exception that ended the run, or ""
    result,         \* per run: the returned list
    call,           \* a direct call of one function: its name and arguments
    ret             \* the value that call returned

vars == <<vlyr, rb, nodata_value, pc, feat, src_offset, src_array, new_gt,
          rv_array, masked, stats, raised, result, call, ret>>

runVars == <<vlyr, rb, nodata_value, pc, feat, src_offset, src_array, new_gt,
             rv_array, masked, stats, raised, result>>

(***************************************************************************)
(* Bounds of the model.                                                    *)
(***************************************************************************)
MaxFeatures == 2
MaxCoord == 5
MaxCells == 3

\* The two runs compared: global_src_extent = TRUE and global_src_extent = FALSE.
Modes == BOOLEAN

(***************************************************************************)
(* Python and numpy values.                                                *)
(***************************************************************************)
\* None as the nodata_value argument, and a configured value.
NoNodata == [set |-> FALSE, v |-> 0]
Nodata(x) == [set |-> TRUE, v |-> x]

\* ReadAsArray's None.
NoneArray == [isNone |-> TRUE, rows |-> 0, cols |-> 0, cell |-> <<>>]

Cells(rows, cols) == (0 .. rows - 1) \X (0 .. cols - 1)

Abs(a) == IF a < 0 THEN -a ELSE a

\* int(a / b): the quotient truncated toward zero.
\* round(a / b) for b > 0, halves rounded up.
TruncDivRound(a, b) ==
    IF b > 0 THEN (2 * a + b) \div (2 * b) ELSE (2 * (-a) + (-b)) \div (2 * (-b))
TruncDiv(a, b) ==
    IF (a >= 0 /\ b > 0) \/ (a <= 0 /\ b < 0)
    THEN Abs(a) \div Abs(b)
    ELSE -(Abs(a) \div Abs(b))

RECURSIVE SumOver(_, _)
SumOver(S, f) ==
    IF S = {} THEN 0
    ELSE LET x == CHOOSE y \in S : TRUE IN f[x] + SumOver(S \ {x}, f)

(***************************************************************************)
(* bbox_to_pixel_offsets                                                   *)
(***************************************************************************)
bbox_to_pixel_offsets_nopad(gt, bbox) ==
    LET originX == gt[1]
        originY == gt[4]
        pixel_width == gt[2]
        pixel_height == gt[6]
        x1 == TruncDiv(bbox[1] - originX, pixel_width)
        x2 == TruncDiv(bbox[2] - originX, pixel_width)
        y1 == TruncDiv(bbox[4] - originY, pixel_height)
        y2 == TruncDiv(bbox[3] - originY, pixel_height)
    IN  <<x1, y1, x2 - x1, y2 - y1>>

bbox_to_pixel_offsets_swapped(gt, bbox) ==
    LET originX == gt[1]
        originY == gt[4]
        pixel_width == gt[2]
        pixel_height == gt[6]
        x1 == TruncDiv(bbox[1] - originX, pixel_width)
        x2 == TruncDiv(bbox[2] - originX, pixel_width) + 1
        y1 == TruncDiv(bbox[3] - originY, pixel_height)
        y2 == TruncDiv(bbox[4] - originY, pixel_height) + 1
    IN  <<x1, y1, x2 - x1, y2 - y1>>

bbox_to_pixel_offsets(gt, bbox) ==
    LET originX == gt[1]
        originY == gt[4]
        pixel_width == gt[2]
        pixel_height == gt[6]
        x1 == TruncDiv(bbox[1] - originX, pixel_width)
        x2 == TruncDiv(bbox[2] - originX, pixel_width) + 1
        y1 == TruncDiv(bbox[4] - originY, pixel_height)
        y2 == TruncDiv(bbox[3] - originY, pixel_height) + 1
        xsize == x2 - x1
        ysize == y2 - y1
    IN  <<x1, y1, xsize, ysize>>

(***************************************************************************)
(* The raster band, the rasterizer and the masked array.                   *)
(***************************************************************************)
\* rb.ReadAsArray(xoff, yoff, xsize, ysize): the cells of the window, row by
\* row; None when the window is not inside the band.
ReadAsArray(band, off) ==
    IF \/ off[1] < 0 \/ off[2] < 0 \/ off[3] < 1 \/ off[4] < 1
       \/ off[1] + off[3] > band.cols \/ off[2] + off[4] > band.rows
    THEN NoneArray
    ELSE [isNone |-> FALSE, rows |-> off[4], cols |-> off[3],
          cell |-> [p \in Cells(off[4], off[3]) |->
                        band.cell[<<off[2] + p[1], off[1] + p[2]>>]]]

\* The geotransform of the window at offset off of a raster with geotransform rgt.
NewGt(rgt, off) ==
    <<rgt[1] + (off[1] * rgt[2]), rgt[2], 0, rgt[4] + (off[2] * rgt[6]), 0, rgt[6]>>

\* The centre of cell (r, c) under geotransform gt lies in the envelope env
\* (twice the coordinates, to stay in the integers).
CentreInside(gt, env, r, c) ==
    LET cx2 == 2 * gt[1] + (2 * c + 1) * gt[2]
        cy2 == 2 * gt[4] + (2 * r + 1) * gt[6]
    IN  /\ 2 * env[1] <= cx2 /\ cx2 < 2 * env[2]
        /\ 2 * env[3] < cy2 /\ cy2 <= 2 * env[4]

\* driver.Create('', xsize, ysize, 1, GDT_Byte), SetGeoTransform(gt),
\* RasterizeLayer(burn_values=[1]), ReadAsArray(): 1 where the feature covers the cell.
RasterizeLayer(gt, xsize, ysize, f) ==
    [isNone |-> FALSE, rows |-> ysize, cols |-> xsize,
     cell |-> [p \in Cells(ysize, xsize) |->
                   IF CentreInside(gt, f.envelope, p[1], p[2]) THEN 1 ELSE 0]]

\* src_array == nodata_value at cell p: numpy compares cell by cell (with None:
\* False everywhere); when src_array is None it is Python's None == nodata_value.
EqNodata(src, nodata, p) ==
    IF src.isNone THEN ~nodata.set
    ELSE nodata.set /\ src.cell[p] = nodata.v

\* np.logical_or(src_array == nodata_value, np.logical_not(rv_array))
MaskAnd(src, nodata, rv) ==
    [p \in Cells(rv.rows, rv.cols) |-> EqNodata(src, nodata, p) /\ rv.cell[p] = 0]
Mask(src, nodata, rv) ==
    [p \in Cells(rv.rows, rv.cols) |-> EqNodata(src, nodata, p) \/ rv.cell[p] = 0]

\* np.ma.MaskedArray(None, mask): the data is a 0-d array of size 1. numpy
\* raises MaskError("Mask and data not compatible") for a mask of another
\* size and resizes a mask of size 1 to the shape of the data.
MaskError(src, rv) == src.isNone /\ rv.rows * rv.cols # 1

MaskedArray(src, mask) ==
    IF src.isNone
    THEN [isNone |-> TRUE, data |-> <<>>, mask |-> [p \in {<<>>} |-> mask[<<0, 0>>]]]
    ELSE [isNone |-> FALSE, data |-> src.cell, mask |-> mask]

NoMasked == [isNone |-> TRUE, data |-> <<>>, mask |-> <<>>]

\* masked.count()
count(m) == Cardinality({p \in DOMAIN m.mask : ~m.mask[p]})

\* np.count_nonzero(masked == [code]); a None cell equals no code.
count_nonzero_any(m, code) ==
    Cardinality({p \in DOMAIN m.mask : ~m.isNone /\ m.data[p] = code})
count_nonzero_eq(m, code) ==
    Cardinality({p \in DOMAIN m.mask : ~m.mask[p] /\ ~m.isNone /\ m.data[p] = code})

(***************************************************************************)
(* Features and records.                                                   *)
(***************************************************************************)
\* feat.GetField('HydroID') raises KeyError when the layer has no such field.
HasField(f, name) == name \in DOMAIN f.fields
GetField(f, name) == f.fields[name]
GetFID(f) == f.fid

ClassCodes == {11, 12, 21, 22, 23, 24, 31, 41, 42, 43, 51, 52, 71, 72, 73, 74, 81, 82, 90, 95}

ClassKeys == {"11", "12", "21", "22", "23", "24", "31", "41", "42", "43",
              "51", "52", "71", "72", "73", "74", "81", "82", "90", "95"}

\* The record built in zonal_stats.
feature_stats(f, m) ==
    ("FID" :> GetFID(f)) @@ ("HydroID" :> GetField(f, "HydroID")) @@
    ("TotalPixels" :> count(m)) @@
    ("11" :> count_nonzero_eq(m, 11)) @@ ("12" :> count_nonzero_eq(m, 12)) @@
    ("21" :> count_nonzero_eq(m, 21)) @@ ("22" :> count_nonzero_eq(m, 22)) @@
    ("23" :> count_nonzero_eq(m, 23)) @@ ("24" :> count_nonzero_eq(m, 24)) @@
    ("31" :> count_nonzero_eq(m, 31)) @@
    ("41" :> count_nonzero_eq(m, 41)) @@ ("42" :> count_nonzero_eq(m, 42)) @@
    ("43" :> count_nonzero_eq(m, 43)) @@
    ("51" :> count_nonzero_eq(m, 51)) @@ ("52" :> count_nonzero_eq(m, 52)) @@
    ("71" :> count_nonzero_eq(m, 71)) @@ ("72" :> count_nonzero_eq(m, 72)) @@
    ("73" :> count_nonzero_eq(m, 73)) @@ ("74" :> count_nonzero_eq(m, 74)) @@
    ("81" :> count_nonzero_eq(m, 81)) @@ ("82" :> count_nonzero_eq(m, 82)) @@
    ("90" :> count_nonzero_eq(m, 90)) @@ ("95" :> count_nonzero_eq(m, 95))

LulcClassKeys == {"lulc_11", "lulc_12", "lulc_21", "lulc_22", "lulc_23", "lulc_24",
                  "lulc_31", "lulc_41", "lulc_42", "lulc_43", "lulc_51", "lulc_52",
                  "lulc_71", "lulc_72", "lulc_73", "lulc_74", "lulc_81", "lulc_82",
                  "lulc_90", "lulc_95"}

LulcGroupKeys == {"lulc_1", "lulc_2", "lulc_3", "lulc_4", "lulc_5", "lulc_7",
                  "lulc_8", "lulc_9"}

get_nlcd_counts_group4(f, m) ==
    ("FID" :> GetFID(f)) @@ ("HydroID" :> GetField(f, "HydroID")) @@
    ("TotalPixels" :> count(m)) @@
    ("lulc_11" :> count_nonzero_eq(m, 11)) @@ ("lulc_12" :> count_nonzero_eq(m, 12)) @@
    ("lulc_21" :> count_nonzero_eq(m, 21)) @@ ("lulc_22" :> count_nonzero_eq(m, 22)) @@
    ("lulc_23" :> count_nonzero_eq(m, 23)) @@ ("lulc_24" :> count_nonzero_eq(m, 24)) @@
    ("lulc_31" :> count_nonzero_eq(m, 31)) @@
    ("lulc_41" :> count_nonzero_eq(m, 41)) @@ ("lulc_42" :> count_nonzero_eq(m, 42)) @@
    ("lulc_43" :> count_nonzero_eq(m, 43)) @@
    ("lulc_51" :> count_nonzero_eq(m, 51)) @@ ("lulc_52" :> count_nonzero_eq(m, 52)) @@
    ("lulc_71" :> count_nonzero_eq(m, 71)) @@ ("lulc_72" :> count_nonzero_eq(m, 72)) @@
    ("lulc_73" :> count_nonzero_eq(m, 73)) @@ ("lulc_74" :> count_nonzero_eq(m, 74)) @@
    ("lulc_81" :> count_nonzero_eq(m, 81)) @@ ("lulc_82" :> count_nonzero_eq(m, 82)) @@
    ("lulc_90" :> count_nonzero_eq(m, 90)) @@ ("lulc_95" :> count_nonzero_eq(m, 95)) @@
    ("lulc_1" :> count_nonzero_eq(m, 11) + count_nonzero_eq(m, 12)) @@
    ("lulc_2" :> count_nonzero_eq(m, 21) + count_nonzero_eq(m, 22)
                 + count_nonzero_eq(m, 23) + count_nonzero_eq(m, 24)) @@
    ("lulc_3" :> count_nonzero_eq(m, 31)) @@
    ("lulc_4" :> count_nonzero_eq(m, 41) + count_nonzero_eq(m, 42)) @@
    ("lulc_5" :> count_nonzero_eq(m, 51) + count_nonzero_eq(m, 52)) @@
    ("lulc_7" :> count_nonzero_eq(m, 71) + count_nonzero_eq(m, 72)
                 + count_nonzero_eq(m, 73) + count_nonzero_eq(m, 74)) @@
    ("lulc_8" :> count_nonzero_eq(m, 81) + count_nonzero_eq(m, 82)) @@
    ("lulc_9" :> count_nonzero_eq(m, 90) + count_nonzero_eq(m, 95))

get_nlcd_counts(f, m) ==
    ("FID" :> GetFID(f)) @@ ("HydroID" :> GetField(f, "HydroID")) @@
    ("TotalPixels" :> count(m)) @@
    ("lulc_11" :> count_nonzero_eq(m, 11)) @@ ("lulc_12" :> count_nonzero_eq(m, 12)) @@
    ("lulc_21" :> count_nonzero_eq(m, 21)) @@ ("lulc_22" :> count_nonzero_eq(m, 22)) @@
    ("lulc_23" :> count_nonzero_eq(m, 23)) @@ ("lulc_24" :> count_nonzero_eq(m, 24)) @@
    ("lulc_31" :> count_nonzero_eq(m, 31)) @@
    ("lulc_41" :> count_nonzero_eq(m, 41)) @@ ("lulc_42" :> count_nonzero_eq(m, 42)) @@
    ("lulc_43" :> count_nonzero_eq(m, 43)) @@
    ("lulc_51" :> count_nonzero_eq(m, 51)) @@ ("lulc_52" :> count_nonzero_eq(m, 52)) @@
    ("lulc_71" :> count_nonzero_eq(m, 71)) @@ ("lulc_72" :> count_nonzero_eq(m, 72)) @@
    ("lulc_73" :> count_nonzero_eq(m, 73)) @@ ("lulc_74" :> count_nonzero_eq(m, 74)) @@
    ("lulc_81" :> count_nonzero_eq(m, 81)) @@ ("lulc_82" :> count_nonzero_eq(m, 82)) @@
    ("lulc_90" :> count_nonzero_eq(m, 90)) @@ ("lulc_95" :> count_nonzero_eq(m, 95)) @@
    ("lulc_1" :> count_nonzero_eq(m, 11) + count_nonzero_eq(m, 12)) @@
    ("lulc_2" :> count_nonzero_eq(m, 21) + count_nonzero_eq(m, 22)
                 + count_nonzero_eq(m, 23) + count_nonzero_eq(m, 24)) @@
    ("lulc_3" :> count_nonzero_eq(m, 31)) @@
    ("lulc_4" :> count_nonzero_eq(m, 41) + count_nonzero_eq(m, 42)
                 + count_nonzero_eq(m, 43)) @@
    ("lulc_5" :> count_nonzero_eq(m, 51) + count_nonzero_eq(m, 52)) @@
    ("lulc_7" :> count_nonzero_eq(m, 71) + count_nonzero_eq(m, 72)
                 + count_nonzero_eq(m, 73) + count_nonzero_eq(m, 74)) @@
    ("lulc_8" :> count_nonzero_eq(m, 81) + count_nonzero_eq(m, 82)) @@
    ("lulc_9" :> count_nonzero_eq(m, 90) + count_nonzero_eq(m, 95))

(***************************************************************************)
(* Inputs.                                                                 *)
(***************************************************************************)
\* A band of rows x cols cells given row by row, with the raster's geotransform.
Band(gt, data) ==
    [gt |-> gt, rows |-> Len(data), cols |-> Len(data[1]),
     cell |-> [p \in Cells(Len(data), Len(data[1])) |-> data[p[1] + 1][p[2] + 1]]]

\* North-up: origin (4, 12), pixels of 4 x 4 units.
RasterGt == <<4, 4, 0, 12, 0, -4>>

Rasters ==
    { Band(RasterGt, << <<21, 21>>, <<21, 21>> >>),
      Band(RasterGt, << <<11, 41>>, <<11, 41>> >>),
      Band(RasterGt, << <<11, 99, 0>>, <<0, 95, 21>> >>) }

NodataValues == {NoNodata, Nodata(0), Nodata(21)}

Feature(fid, fields, env) == [fid |-> fid, fields |-> fields, envelope |-> env]

\* Envelopes are (minX, maxX, minY, maxY).
FeaturePool ==
    { Feature(3, [HydroID |-> 103], <<5, 11, 5, 11>>),   \* inside, all four cells
      Feature(7, [HydroID |-> 107], <<4, 8, 5, 11>>),    \* inside, left column
      Feature(2, [HydroID |-> 102], <<9, 11, 5, 11>>),   \* inside, right column
      Feature(1, [HydroID |-> 101], <<4, 12, 4, 12>>),   \* exactly the 2 x 2 extent
      Feature(5, [HydroID |-> 105], <<21, 23, 9, 11>>),  \* outside, within one cell
      Feature(8, [HydroID |-> 108], <<-6, -1, 5, 7>>),   \* outside, left of the origin
      Feature(6, [HydroID |-> 106], <<2, 7, 5, 7>>),     \* straddles the left edge
      Feature(4, [Name |-> 104], <<9, 11, 5, 11>>),      \* no HydroID field
      Feature(9, [HydroID |-> 109], <<6, 6, 10, 10>>) }  \* a point

Injective(s) == \A i, j \in DOMAIN s : i # j => s[i] # s[j]

Layers ==
    UNION { {s \in [1 .. n -> FeaturePool] : Injective(s)} : n \in 0 .. MaxFeatures }

SetMin(S) == CHOOSE x \in S : \A y \in S : x <= y
SetMax(S) == CHOOSE x \in S : \A y \in S : x >= y

\* vlyr.GetExtent(): the envelope of all features; (0, 0, 0, 0) for an empty layer.
GetExtent(layer) ==
    IF layer = <<>> THEN <<0, 0, 0, 0>>
    ELSE <<SetMin({layer[i].envelope[1] : i \in DOMAIN layer}),
           SetMax({layer[i].envelope[2] : i \in DOMAIN layer}),
           SetMin({layer[i].envelope[3] : i \in DOMAIN layer}),
           SetMax({layer[i].envelope[4] : i \in DOMAIN layer})>>

NoWindow == <<0, 0, 0, 0>>
NoGt == <<0, 0, 0, 0, 0, 0>>
NoCall == [fn |-> "none", done |-> TRUE]
NoRet == [raised |-> "", by |-> "", value |-> <<>>]

(***************************************************************************)
(* zonal_stats: one run per value of global_src_extent, on the same inputs.*)
(***************************************************************************)
InitRun(layers, rasters, nodatas) ==
    /\ vlyr \in layers
    /\ rb \in rasters
    /\ nodata_value \in nodatas
    /\ pc = [m \in Modes |-> "start"]
    /\ feat = [m \in Modes |-> 0]
    /\ src_offset = [m \in Modes |-> NoWindow]
    /\ src_array = [m \in Modes |-> NoneArray]
    /\ new_gt = [m \in Modes |-> NoGt]
    /\ rv_array = [m \in Modes |-> NoneArray]
    /\ masked = [m \in Modes |-> NoMasked]
    /\ stats = [m \in Modes |-> <<>>]
    /\ raised = [m \in Modes |-> ""]
    /\ result = [m \in Modes |-> <<>>]
    /\ call = NoCall
    /\ ret = NoRet

Init == InitRun(Layers, Rasters, NodataValues)

\* Lines 55-92: open the raster and the layer, read the global window when
\* global_src_extent, and fetch the first feature.
Open(m) ==
    /\ pc[m] = "start"
    /\ IF m
       THEN LET off == bbox_to_pixel_offsets(rb.gt, GetExtent(vlyr))
            IN  /\ src_offset' = [src_offset EXCEPT ![m] = off]
                /\ src_array' = [src_array EXCEPT ![m] = ReadAsArray(rb, off)]
                /\ new_gt' = [new_gt EXCEPT ![m] = NewGt(rb.gt, off)]
       ELSE UNCHANGED <<src_offset, src_array, new_gt>>
    /\ stats' = [stats EXCEPT ![m] = <<>>]
    /\ feat' = [feat EXCEPT ![m] = 1]
    /\ pc' = [pc EXCEPT ![m] = "loop"]
    /\ UNCHANGED <<vlyr, rb, nodata_value, rv_array, masked, raised, result, call, ret>>

\* stats.append(feature_stats)
AppendStats(s, rec) == Append(s, rec)

\* feat = vlyr.GetNextFeature()
GetNextFeature(i) == i + 1

\* Lines 93-164: one pass of the loop body for the current feature.
Iterate(m) ==
    /\ pc[m] = "loop"
    /\ feat[m] <= Len(vlyr)
    /\ LET f == vlyr[feat[m]]
           off == IF m THEN src_offset[m] ELSE bbox_to_pixel_offsets(rb.gt, f.envelope)
           arr == IF m THEN src_array[m] ELSE ReadAsArray(rb, off)
           ngt == IF m THEN new_gt[m] ELSE NewGt(rb.gt, off)
           rv == RasterizeLayer(ngt, off[3], off[4], f)
           msk == MaskedArray(arr, Mask(arr, nodata_value, rv))
       IN  /\ src_offset' = [src_offset EXCEPT ![m] = off]
           /\ src_array' = [src_array EXCEPT ![m] = arr]
           /\ new_gt' = [new_gt EXCEPT ![m] = ngt]
           /\ IF off[3] < 1 \/ off[4] < 1
              THEN \* driver.Create fails, rvds is None
                   /\ raised' = [raised EXCEPT ![m] = "AttributeError"]
                   /\ pc' = [pc EXCEPT ![m] = "raised"]
                   /\ UNCHANGED <<rv_array, masked, stats, feat>>
              ELSE IF MaskError(arr, rv)
              THEN /\ rv_array' = [rv_array EXCEPT ![m] = rv]
                   /\ raised' = [raised EXCEPT ![m] = "MaskError"]
                   /\ pc' = [pc EXCEPT ![m] = "raised"]
                   /\ UNCHANGED <<masked, stats, feat>>
              ELSE IF ~HasField(f, "HydroID")
              THEN /\ rv_array' = [rv_array EXCEPT ![m] = rv]
                   /\ masked' = [masked EXCEPT ![m] = msk]
                   /\ raised' = [raised EXCEPT ![m] = "KeyError"]
                   /\ pc' = [pc EXCEPT ![m] = "raised"]
                   /\ UNCHANGED <<stats, feat>>
              ELSE /\ rv_array' = [rv_array EXCEPT ![m] = rv]
                   /\ masked' = [masked EXCEPT ![m] = msk]
                   /\ stats' = [stats EXCEPT ![m] = AppendStats(@, feature_stats(f, msk))]
                   /\ feat' = [feat EXCEPT ![m] = GetNextFeature(@)]
                   /\ UNCHANGED <<raised, pc>>
    /\ UNCHANGED <<vlyr, rb, nodata_value, result, call, ret>>

\* Lines 93, 166-168: no feature is left; return stats.
Return(m) ==
    /\ pc[m] = "loop"
    /\ feat[m] > Len(vlyr)
    /\ result' = [result EXCEPT ![m] = stats[m]]
    /\ pc' = [pc EXCEPT ![m] = "returned"]
    /\ UNCHANGED <<vlyr, rb, nodata_value, feat, src_offset, src_array, new_gt,
                   rv_array, masked, stats, raised, call, ret>>

Next == \E m \in Modes : Open(m) \/ Iterate(m) \/ Return(m)

Spec == Init /\ [][Next]_vars

(***************************************************************************)
(* zonal_stats on a layer of one feature with any envelope of the          *)
(* coordinate range.                                                       *)
(***************************************************************************)
Coords == -MaxCoord .. MaxCoord

\* Bounding boxes (minX, maxX, minY, maxY) with minX <= maxX and minY <= maxY.
BBoxes ==
    {<<a, b, c, d>> : a \in Coords, b \in Coords, c \in Coords, d \in Coords}
        \cap {bb \in Coords \X Coords \X Coords \X Coords : bb[1] <= bb[2] /\ bb[3] <= bb[4]}

\* North-up: origin (0, 0), pixels of 2 x 2 units; the band covers x in [0, 6], y in [-4, 0].
WideGt == <<0, 2, 0, 0, 0, -2>>

WideRasters == { Band(WideGt, << <<11, 99, 21>>, <<0, 95, 21>> >>) }

WideLayers == { <<Feature(0, [HydroID |-> 100], bb)>> : bb \in BBoxes }

InitWide == InitRun(WideLayers, WideRasters, {NoNodata})

SpecWide == InitWide /\ [][Next]_vars

(***************************************************************************)
(* Direct calls of bbox_to_pixel_offsets.                                  *)
(***************************************************************************)
IdleRun ==
    /\ vlyr = <<>>
    /\ rb = Band(WideGt, << <<0>> >>)
    /\ nodata_value = NoNodata
    /\ pc = [m \in Modes |-> "idle"]
    /\ feat = [m \in Modes |-> 0]
    /\ src_offset = [m \in Modes |-> NoWindow]
    /\ src_array = [m \in Modes |-> NoneArray]
    /\ new_gt = [m \in Modes |-> NoGt]
    /\ rv_array = [m \in Modes |-> NoneArray]
    /\ masked = [m \in Modes |-> NoMasked]
    /\ stats = [m \in Modes |-> <<>>]
    /\ raised = [m \in Modes |-> ""]
    /\ result = [m \in Modes |-> <<>>]

\* Geotransforms with pixel_width # 0 and pixel_height # 0: two north-up, one
\* south-up, one mirrored in x, one mirrored in x and south-up.
BBoxGeoTransforms ==
    { <<0, 2, 0, 0, 0, -2>>, <<1, 3, 0, -1, 0, -3>>, <<0, 2, 0, 0, 0, 2>>,
      <<0, -2, 0, 0, 0, -2>>, <<1, -3, 0, 1, 0, 2>> }

InitBBox ==
    /\ IdleRun
    /\ call \in {[fn |-> "bbox_to_pixel_offsets", done |-> FALSE, gt |-> g, bbox |-> bb] :
                    g \in BBoxGeoTransforms, bb \in BBoxes}
    /\ ret = NoRet

CallBBox ==
    /\ call.fn = "bbox_to_pixel_offsets"
    /\ ~call.done
    /\ ret' = [raised |-> "", by |-> "bbox_to_pixel_offsets",
               value |-> bbox_to_pixel_offsets(call.gt, call.bbox)]
    /\ call' = [call EXCEPT !.done = TRUE]
    /\ UNCHANGED runVars

NextBBox == CallBBox

SpecBBox == InitBBox /\ [][NextBBox]_vars

(***************************************************************************)
(* Direct calls of the two tabulations on the same feature and masked      *)
(* array: the record built in zonal_stats and get_nlcd_counts.             *)
(***************************************************************************)
CellValues == {11, 41, 43, 90, 99}

\* Masked arrays of one row and 1 .. MaxCells columns.
MaskedArrays ==
    UNION { { [isNone |-> FALSE, data |-> d, mask |-> k] :
                d \in [Cells(1, n) -> CellValues], k \in [Cells(1, n) -> BOOLEAN] } :
            n \in 1 .. MaxCells }

CountFeatures ==
    { Feature(3, [HydroID |-> 103], <<5, 11, 5, 11>>),
      Feature(4, [Name |-> 104], <<9, 11, 5, 11>>) }

InitCounts ==
    /\ IdleRun
    /\ call \in {[fn |-> "tabulate", done |-> FALSE, feat |-> f, masked |-> k] :
                    f \in CountFeatures, k \in MaskedArrays}
    /\ ret = NoRet

\* zonal_stats, lines 135-159.
CallFeatureStats ==
    /\ call.fn = "tabulate"
    /\ ~call.done
    /\ ret' = IF HasField(call.feat, "HydroID")
              THEN [raised |-> "", by |-> "zonal_stats",
                    value |-> feature_stats(call.feat, call.masked)]
              ELSE [raised |-> "KeyError", by |-> "zonal_stats", value |-> <<>>]
    /\ call' = [call EXCEPT !.done = TRUE]
    /\ UNCHANGED runVars

CallGetNlcdCounts ==
    /\ call.fn = "tabulate"
    /\ ~call.done
    /\ ret' = IF HasField(call.feat, "HydroID")
              THEN [raised |-> "", by |-> "get_nlcd_counts",
                    value |-> get_nlcd_counts(call.feat, call.masked)]
              ELSE [raised |-> "KeyError", by |-> "get_nlcd_counts", value |-> <<>>]
    /\ call' = [call EXCEPT !.done = TRUE]
    /\ UNCHANGED runVars

NextCounts == CallFeatureStats \/ CallGetNlcdCounts

SpecCounts == InitCounts /\ [][NextCounts]_vars

(***************************************************************************)
(* Properties.                                                             *)
(***************************************************************************)
\* The key of each class code in the record built in zonal_stats.
ClassTable ==
    { <<"11", 11>>, <<"12", 12>>, <<"21", 21>>, <<"22", 22>>, <<"23", 23>>,
      <<"24", 24>>, <<"31", 31>>, <<"41", 41>>, <<"42", 42>>, <<"43", 43>>,
      <<"51", 51>>, <<"52", 52>>, <<"71", 71>>, <<"72", 72>>, <<"73", 73>>,
      <<"74", 74>>, <<"81", 81>>, <<"82", 82>>, <<"90", 90>>, <<"95", 95>> }

Runs == {m \in Modes : pc[m] \in {"loop", "returned"}}

Ended(m) == pc[m] \in {"returned", "raised"}

LastRecord(m) == stats[m][Len(stats[m])]

FIDs(records) == [i \in DOMAIN records |-> records[i]["FID"]]

LayerFIDs(n) == [i \in 1 .. n |-> vlyr[i].fid]

\* C1 (order preservation): for a layer of N features, zonal_stats returns
\* exactly N records and the i-th record carries the FID of the i-th feature:
\* every run that has ended has returned such a list.
C1_OrderPreservation ==
    \A m \in Modes :
        Ended(m) =>
            /\ pc[m] = "returned"
            /\ Len(result[m]) = Len(vlyr)
            /\ FIDs(result[m]) = LayerFIDs(Len(vlyr))

\* C2 (mode equivalence): on the same raster, no-data value and layer, the
\* run with global_src_extent=True returns the list that the run with
\* global_src_extent=False returns, record by record and key by key.
C2_ModeEquivalence ==
    (Ended(TRUE) /\ Ended(FALSE) /\ (pc[TRUE] = "returned" \/ pc[FALSE] = "returned")) =>
        /\ pc[TRUE] = "returned"
        /\ pc[FALSE] = "returned"
        /\ result[TRUE] = result[FALSE]

\* A run that returns has one record per feature, in iteration order; while it
\* loops, its records are those of the features already iterated.
ReturnedInOrder ==
    \A m \in Runs :
        /\ Len(stats[m]) = feat[m] - 1
        /\ FIDs(stats[m]) = LayerFIDs(feat[m] - 1)
        /\ pc[m] = "returned" => (feat[m] = Len(vlyr) + 1 /\ result[m] = stats[m])

\* When both runs return, they return the same list.
ReturnedListsEqual ==
    (pc[TRUE] = "returned" /\ pc[FALSE] = "returned") => result[TRUE] = result[FALSE]

NonExcluded(k) == {p \in DOMAIN k.mask : ~k.mask[p]}

\* C3 (count conservation): in every record produced, TotalPixels is at least
\* the sum of the 20 class counts, with equality exactly when every
\* non-excluded pixel holds one of the 20 codes; the difference is the number
\* of non-excluded pixels holding another value.
C3_CountConservation ==
    \A m \in Runs :
        stats[m] # <<>> =>
            LET rec == LastRecord(m)
                total == rec["TotalPixels"]
                classes == SumOver(ClassKeys, rec)
                other == {p \in NonExcluded(masked[m]) :
                             masked[m].isNone \/ masked[m].data[p] \notin ClassCodes}
            IN  /\ ClassKeys \subseteq DOMAIN rec
                /\ total >= classes
                /\ (total = classes) <=> (other = {})
                /\ total - classes = Cardinality(other)

C3_Witness ==
    \E m \in Runs :
        /\ stats[m] # <<>>
        /\ LastRecord(m)["TotalPixels"] > SumOver(ClassKeys, LastRecord(m))
        /\ SumOver(ClassKeys, LastRecord(m)) > 0

\* The cells of the band whose centre the feature covers, and those of them
\* that the no-data value does not exclude.
CoveredCells(f) ==
    {p \in Cells(rb.rows, rb.cols) : CentreInside(rb.gt, f.envelope, p[1], p[2])}

ValidCells(f) ==
    {p \in CoveredCells(f) : ~(nodata_value.set /\ rb.cell[p] = nodata_value.v)}

\* The window of the i-th feature in run m, and whether it lies inside the band
\* (so that it was read).
WindowOf(m, i) ==
    IF m THEN src_offset[m] ELSE bbox_to_pixel_offsets(rb.gt, vlyr[i].envelope)

WindowRead(m, i) ==
    LET off == WindowOf(m, i)
    IN  /\ off[1] >= 0 /\ off[2] >= 0
        /\ off[1] + off[3] <= rb.cols /\ off[2] + off[4] <= rb.rows

C5_MissingJoinKeyNotFatal ==
    \A m \in Modes :
        pc[m] = "raised" => HasField(vlyr[feat[m]], "HydroID")

\* The envelope lies entirely outside the extent of the band.
OutsideBand(env) ==
    \/ env[2] < rb.gt[1]
    \/ env[1] > rb.gt[1] + rb.cols * rb.gt[2]
    \/ env[4] < rb.gt[4] + rb.rows * rb.gt[6]
    \/ env[3] > rb.gt[4]

\* C6 (out-of-extent feature): a feature whose bounding box lies entirely
\* outside the raster extent does not end the run, and its record has
\* TotalPixels = 0 and every class count 0.
C6_OutOfExtentZeroRecord ==
    \A m \in Modes :
        /\ pc[m] = "raised" => ~OutsideBand(vlyr[feat[m]].envelope)
        /\ \A i \in DOMAIN stats[m] :
              OutsideBand(vlyr[i].envelope) =>
                  /\ stats[m][i]["TotalPixels"] = 0
                  /\ \A k \in ClassKeys : stats[m][i][k] = 0

\* Each group aggregate of the record equals the sum of its subclass counts.
GroupSums(rec) ==
    /\ rec["lulc_1"] = rec["lulc_11"] + rec["lulc_12"]
    /\ rec["lulc_2"] = rec["lulc_21"] + rec["lulc_22"] + rec["lulc_23"] + rec["lulc_24"]
    /\ rec["lulc_3"] = rec["lulc_31"]
    /\ rec["lulc_4"] = rec["lulc_41"] + rec["lulc_42"] + rec["lulc_43"]
    /\ rec["lulc_5"] = rec["lulc_51"] + rec["lulc_52"]
    /\ rec["lulc_7"] = rec["lulc_71"] + rec["lulc_72"] + rec["lulc_73"] + rec["lulc_74"]
    /\ rec["lulc_8"] = rec["lulc_81"] + rec["lulc_82"]
    /\ rec["lulc_9"] = rec["lulc_90"] + rec["lulc_95"]

Tabulated == call.fn = "tabulate" /\ call.done /\ ret.raised = ""

BBoxCalled == call.fn = "bbox_to_pixel_offsets" /\ call.done

\* C8 (PixelWindow invariant), as claimed: for every geotransform with
\* pixelWidth # 0 and pixelHeight # 0 and every bounding box with
\* minX <= maxX and minY <= maxY the window has width >= 0 and height >= 0.
C8_WindowNonNegative ==
    BBoxCalled => (ret.value[3] >= 0 /\ ret.value[4] >= 0)

\* C8 (PixelWindow invariant), amended: for every bounding box with
\* minX <= maxX and minY <= maxY the width is >= 0 when pixelWidth > 0 and the
\* height is >= 0 when pixelHeight < 0.
C8_WindowNonNegativeByAxis ==
    BBoxCalled =>
        /\ call.gt[2] > 0 => ret.value[3] >= 0
        /\ call.gt[6] < 0 => ret.value[4] >= 0

C8_Witness ==
    /\ BBoxCalled
    /\ call.gt[2] > 0
    /\ call.gt[6] < 0
    /\ call.bbox[1] < call.bbox[2]
    /\ call.bbox[3] < call.bbox[4]
    /\ ret.value[3] >= 2
    /\ ret.value[4] >= 2

NorthUp(gt) == gt[2] > 0 /\ gt[6] < 0

\* Column i spans [originX + i * w, originX + (i + 1) * w); row j spans
\* (originY + (j + 1) * h, originY + j * h] (h < 0).
ColumnOverlaps(gt, bbox, i) ==
    /\ bbox[1] < gt[1] + (i + 1) * gt[2]
    /\ bbox[2] >= gt[1] + i * gt[2]

RowOverlaps(gt, bbox, j) ==
    /\ bbox[4] > gt[4] + (j + 1) * gt[6]
    /\ bbox[3] <= gt[4] + j * gt[6]

Indices == -(MaxCoord + 2) .. (MaxCoord + 2)

InWindow(win, i, j) ==
    /\ win[1] <= i /\ i < win[1] + win[3]
    /\ win[2] <= j /\ j < win[2] + win[4]

WindowComputed(m) ==
    IF m THEN pc[m] \in {"loop", "returned", "raised"}
    ELSE feat[m] > 1 \/ pc[m] = "raised"

\* C10: for a north-up geotransform and every bounding box with minX <= maxX
\* and minY <= maxY the window has width >= 1 and height >= 1, so the read
\* and the rasterizer never get a window of zero size, and the coverage raster
\* has the width and height of the window that was read.
C10_WindowAtLeastOneCell ==
    \A m \in Modes :
        WindowComputed(m) =>
            /\ src_offset[m][3] >= 1
            /\ src_offset[m][4] >= 1
            /\ raised[m] # "AttributeError"
            /\ ~rv_array[m].isNone =>
                  /\ rv_array[m].cols = src_offset[m][3]
                  /\ rv_array[m].rows = src_offset[m][4]
                  /\ ~src_array[m].isNone =>
                        /\ src_array[m].cols = rv_array[m].cols
                        /\ src_array[m].rows = rv_array[m].rows

\* The feature is a point inside the band: a window of one cell was read and
\* rasterized.
C10_Witness ==
    \E m \in Modes :
        /\ ~m
        /\ feat[m] = 2
        /\ vlyr[1].envelope[1] = vlyr[1].envelope[2]
        /\ vlyr[1].envelope[3] = vlyr[1].envelope[4]
        /\ src_offset[m][3] = 1 /\ src_offset[m][4] = 1
        /\ ~src_array[m].isNone
        /\ ~rv_array[m].isNone

====
